---- MODULE Spec2Model ----
(***************************************************************************)
(* TypeFall leaderboard server: the request handlers of                    *)
(* leaderboard-server.js (build "ids", keyed by player_id) and             *)
(* recalculateGlobalPositions of the nickname-keyed variant of the same    *)
(* server (build "nick").  The three sheets of the spreadsheet are the     *)
(* shared state; every awaited Google Sheets call of a handler is one      *)
(* step, so requests interleave exactly at the await points and any        *)
(* storage call may fail.                                                  *)
(***************************************************************************)
EXTENDS Integers, Sequences, FiniteSets, TLC

\* ------------------------------------------------------------------ bounds
\* Requests issued in one behaviour.
MaxReq == 2
\* Largest score a client submits.
MaxScore == 2
\* Rows of a players sheet left by earlier runs of the server.
MaxRows == 3
\* Submissions of a client that keeps submitting.
MaxFlood == 102

\* ------------------------------------------------------------- JS values
\* A JSON body value / sheet cell: undefined (or an empty cell), a number,
\* or a non-numeric string such as "abc".
Undef == <<"undef", 0>>
Num(n) == <<"num", n>>
NaNStr == <<"str", 0>>

\* !v is false
Truthy(v) == (v[1] = "num" /\ v[2] # 0) \/ v[1] = "str"
\* parseInt(cell) || 0
ParseIntOr0(v) == IF v[1] = "num" THEN v[2] ELSE 0
\* v > n with v a body value and n a number ("abc" > n is false)
JsGreater(v, n) == v[1] = "num" /\ v[2] > n
\* v || 0
OrZero(v) == IF Truthy(v) THEN v ELSE Num(0)

\* ---------------------------------------------------------------- inputs
PlayerIds == {"p1", "p2"}
IdInputs == PlayerIds \cup {""}
NameInputs == {"", "a"}
ScoreInputs == {Undef, Num(0), Num(-1), NaNStr} \cup {Num(n) : n \in 1..MaxScore}
GamesInputs == {Undef, Num(1)}
LevelInputs == {"", "l1", "l2"}
LanguageInputs == {"", "en"}
DifficultyInputs == {"", "easy"}
TimeInputs == {Undef}
ResetTypes == {"full", "stats"}

\* Request bodies a client sends: every field present, or one field missing
\* (or falsy).
One(missing) == IF missing THEN 1 ELSE 0

GlobalBodies ==
    {b \in [player_id : IdInputs, player_name : NameInputs, score : ScoreInputs,
            games : GamesInputs] :
        One(b.player_id = "") + One(b.player_name = "") + One(~Truthy(b.score))
            + One(~Truthy(b.games)) <= 1}

LevelBodies ==
    {b \in [player_id : IdInputs, player_name : NameInputs, level_id : LevelInputs,
            language : LanguageInputs, difficulty : DifficultyInputs,
            score : ScoreInputs] :
        One(b.player_id = "") + One(b.player_name = "") + One(b.level_id = "")
            + One(b.language = "") + One(b.difficulty = "")
            + One(~Truthy(b.score)) <= 1}

Slots == 1..MaxReq

VARIABLES build, global_scores, level_scores, players, clock, req

vars == <<build, global_scores, level_scores, players, clock, req>>
sheets == <<global_scores, level_scores, players>>

\* ---------------------------------------------------------------- sheets
\* A row of the players sheet, columns A..L.
PlayerRow(id, name, created, last, games, high, lvl, diff, lang, time, total, pos) ==
    [id |-> id, name |-> name, created |-> created, last |-> last,
     games |-> games, high |-> high, hs_level |-> lvl, hs_difficulty |-> diff,
     hs_language |-> lang, hs_time |-> time, total |-> total, pos |-> pos]

PlayersHeader ==
    PlayerRow("player_id", "player_name", 0, 0, NaNStr, NaNStr,
              "hs_level", "hs_difficulty", "hs_language", NaNStr, NaNStr, NaNStr)

BlankPlayer == PlayerRow("", "", 0, 0, Undef, Undef, "", "", "", Undef, Undef, Undef)

\* row.length of a row returned by values.get: trailing empty cells are dropped.
RowLen(row) ==
    IF row.pos # Undef THEN 12
    ELSE IF row.total # Undef THEN 11
    ELSE IF row.hs_time # Undef THEN 10
    ELSE IF row.hs_language # "" THEN 9
    ELSE IF row.hs_difficulty # "" THEN 8
    ELSE IF row.hs_level # "" THEN 7
    ELSE IF row.high # Undef THEN 6
    ELSE IF row.games # Undef THEN 5
    ELSE IF row.last # 0 THEN 4
    ELSE IF row.created # 0 THEN 3
    ELSE IF row.name # "" THEN 2
    ELSE IF row.id # "" THEN 1
    ELSE 0

\* values.update on cells of row `index` of the players sheet: the cells named
\* in `upd` are overwritten; a row past the end is created with the rows before it.
RECURSIVE PadTo(_, _)
PadTo(sheet, n) == IF Len(sheet) >= n THEN sheet ELSE PadTo(Append(sheet, BlankPlayer), n)

UpdateCells(sheet, index, upd) ==
    LET padded == PadTo(sheet, index)
    IN [padded EXCEPT ![index] =
            [f \in DOMAIN padded[index] |->
                IF f \in DOMAIN upd THEN upd[f] ELSE padded[index][f]]]

\* startIndex of the players sheet: 1 past a header row (0-based in the code,
\* the first data row's 1-based place here).
StartIndex(sheet) == IF Len(sheet) > 0 /\ sheet[1].id = "player_id" THEN 2 ELSE 1

NoCheck == [exists |-> FALSE, index |-> 0, data |-> BlankPlayer]

\* checkPlayerExists
CheckPlayerExists(sheet, player_id) ==
    LET hits == {j \in StartIndex(sheet)..Len(sheet) : sheet[j].id = player_id}
    IN IF hits = {} THEN NoCheck
       ELSE LET j == CHOOSE k \in hits : \A m \in hits : k <= m
            IN [exists |-> TRUE, index |-> j, data |-> sheet[j]]

\* ------------------------------------------------------------- requests
IdleReq ==
    [op |-> "idle", pc |-> "idle", status |-> 0, seq |-> 0,
     player_id |-> "", player_name |-> "", score |-> Undef, games |-> Undef,
     level_id |-> "", language |-> "", difficulty |-> "", time |-> Undef,
     reset_type |-> "", ts |-> 0, ts2 |-> 0, chk |-> NoCheck, snap |-> <<>>, i |-> 0,
     position |-> 0, result |-> <<>>, ncalls |-> 0, token |-> <<>>]


\* A finished request as the access log keeps it: the handler's locals are gone;
\* the body is kept unless the request was refused (4xx), and for a request
\* that failed the number of storage calls it had issued.
Retired(rq) ==
    IF rq.pc # "done" THEN rq
    ELSE IF rq.status \in {200, 500}
    THEN [IdleReq EXCEPT !.op = rq.op, !.pc = "done", !.status = rq.status,
              !.player_id = rq.player_id,
              !.player_name = rq.player_name, !.score = rq.score,
              !.games = rq.games, !.level_id = rq.level_id,
              !.language = rq.language, !.difficulty = rq.difficulty,
              !.time = rq.time, !.reset_type = rq.reset_type,
              !.position = rq.position,
              !.ncalls = IF rq.status = 500 THEN rq.ncalls ELSE 0]
    ELSE [IdleReq EXCEPT !.op = rq.op, !.pc = "done", !.status = rq.status]

Active == {r \in Slots : req[r].op # "idle" /\ req[r].pc # "done"}

\* Slot r takes the next request; at most k requests are in flight.
CanStart(r, k) ==
    /\ req[r].op = "idle"
    /\ IF r = 1 THEN TRUE ELSE req[r - 1].op # "idle"
    /\ Cardinality(Active) < k

\* The request table once slot r holds the new request rq.
Started(r, rq) == [q \in Slots |-> IF q = r THEN rq ELSE Retired(req[q])]

\* res.status(code).json(...): the request ends.
Respond(rq, code) == [rq EXCEPT !.pc = "done", !.status = code]

\* One more storage call issued by the request, which moves on to pc.
Call(rq, pc) == [rq EXCEPT !.pc = pc, !.ncalls = rq.ncalls + 1]

\* ---------------------------------------------------------------- ranking
\* playerData of the position pass: the rows past the header that are long
\* enough and (with skipDeleted) not marked DELETED, in sheet order.
\* row[10], the total_score cell of a players row
TotalCellOffByOne(row) == row.pos
TotalCell(row) == row.total

RECURSIVE PlayerDataFrom(_, _, _)
PlayerDataFrom(sheet, j, skipDeleted) ==
    IF j > Len(sheet) THEN <<>>
    ELSE LET row == sheet[j]
             rest == PlayerDataFrom(sheet, j + 1, skipDeleted)
         IN IF RowLen(row) >= 11 /\ (~skipDeleted \/ row.id # "DELETED")
            THEN <<[player_id |-> row.id, total_score |-> ParseIntOr0(TotalCell(row)),
                    row_index |-> j]>> \o rest
            ELSE rest

PlayerData(sheet, skipDeleted) == PlayerDataFrom(sheet, StartIndex(sheet), skipDeleted)

\* Where Array.prototype.sort (stable) puts x among the already sorted
\* elements under the comparator b.total_score - a.total_score: after every
\* element whose total_score is at least x's.
InsertAtBeforeEqual(sorted, x) ==
    Cardinality({k \in 1..Len(sorted) : sorted[k].total_score > x.total_score})
InsertAt(sorted, x) ==
    Cardinality({k \in 1..Len(sorted) : sorted[k].total_score >= x.total_score})

InsertSorted(sorted, x) ==
    LET k == InsertAt(sorted, x)
    IN SubSeq(sorted, 1, k) \o <<x>> \o SubSeq(sorted, k + 1, Len(sorted))

\* playerData.sort((a, b) => b.total_score - a.total_score)
SortByTotalNone(s) == s
RECURSIVE SortByTotal(_)
SortByTotal(s) ==
    IF s = <<>> THEN <<>>
    ELSE InsertSorted(SortByTotal(SubSeq(s, 1, Len(s) - 1)), s[Len(s)])

FindPositionZeroBased(snap, player_id) ==
    Cardinality({k \in 1..Len(snap) :
                    \E m \in k + 1..Len(snap) : snap[m].player_id = player_id})
\* playerData.findIndex(p => p.player_id === player_id) + 1
FindPosition(snap, player_id) ==
    LET hits == {k \in 1..Len(snap) : snap[k].player_id = player_id}
    IN IF hits = {} THEN 0 ELSE CHOOSE k \in hits : \A m \in hits : k <= m


\* ------------------------------------------------------------ score rows
\* A row of global_scores as leaderboard-server.js appends it (A..E).
GlobalRow(rq) ==
    [id |-> rq.player_id, name |-> rq.player_name, score |-> rq.score,
     games |-> rq.games, ts |-> rq.ts]

GlobalHeader ==
    [id |-> "player_id", name |-> "player_name", score |-> NaNStr,
     games |-> NaNStr, ts |-> 0]

\* A row of level_scores as leaderboard-server.js appends it (A..G).
LevelRow(rq) ==
    [id |-> rq.player_id, name |-> rq.player_name, level_id |-> rq.level_id,
     language |-> rq.language, difficulty |-> rq.difficulty,
     score |-> rq.score, ts |-> rq.ts]

LevelHeader ==
    [id |-> "player_id", name |-> "player_name", level_id |-> "level_id",
     language |-> "language", difficulty |-> "difficulty",
     score |-> NaNStr, ts |-> 0]

\* The number of rows GET /global-leaderboard returns at most: slice(0, 100).
MAX_ENTRIES == 100

\* values.append: the row goes after the last row of the sheet.
AppendRowTrimmed(sheet, row) ==
    LET s == Append(sheet, row)
    IN IF Len(s) > MAX_ENTRIES THEN Tail(s) ELSE s
AppendRowOverwrite(sheet, row) ==
    IF Len(sheet) = 0 THEN <<row>> ELSE [sheet EXCEPT ![Len(sheet)] = row]
AppendRow(sheet, row) == Append(sheet, row)

\* --------------------------------------------------- POST /global-score
\* The required-field check of POST /global-score.
GlobalScoreMissingNoScore(rq) ==
    \/ rq.player_id = ""
    \/ rq.player_name = ""
    \/ ~Truthy(rq.games)
GlobalScoreMissing(rq) ==
    \/ rq.player_id = ""
    \/ rq.player_name = ""
    \/ ~Truthy(rq.score)
    \/ ~Truthy(rq.games)

\* The request arrives; a body with a missing field is answered 400 at once,
\* otherwise the handler takes its timestamp and goes on to the append.
StartGlobalScore(r, k) ==
    /\ build = "ids"
    /\ CanStart(r, k)
    /\ \E b \in GlobalBodies :
          LET rq == [IdleReq EXCEPT !.op = "global_score", !.player_id = b.player_id,
                         !.player_name = b.player_name, !.score = b.score,
                         !.games = b.games]
          IN IF GlobalScoreMissing(rq)
             THEN /\ req' = Started(r, Respond(rq, 400))
                  /\ clock' = clock
             ELSE /\ req' = Started(r, [rq EXCEPT !.pc = "gs_append", !.ts = clock])
                  /\ clock' = clock + 1
    /\ UNCHANGED <<build, global_scores, level_scores, players>>

\* sheets.spreadsheets.values.append to global_scores
GsAppend(r) ==
    /\ req[r].pc = "gs_append"
    /\ global_scores' = AppendRow(global_scores, GlobalRow(req[r]))
    /\ req' = [req EXCEPT ![r] = Call(req[r], "gs_check")]
    /\ UNCHANGED <<build, level_scores, players, clock>>

\* Where POST /global-score goes after the total_games write.
AfterGamesToPass(rq) == "pos_read"
AfterGames(rq) ==
    IF JsGreater(rq.score, ParseIntOr0(rq.chk.data.high)) THEN "gs_high"
    ELSE IF JsGreater(rq.score, ParseIntOr0(rq.chk.data.total)) THEN "gs_total"
    ELSE "pos_read"

AfterHigh(rq) ==
    IF JsGreater(rq.score, ParseIntOr0(rq.chk.data.total)) THEN "gs_total" ELSE "pos_read"

\* createOrUpdatePlayer is entered: it takes its own timestamp (the step that
\* enters it advances the clock).
EnterCreateNoStamp(rq) == [rq EXCEPT !.pc = "cp_check", !.ts2 = 0]
EnterCreate(rq) == [rq EXCEPT !.pc = "cp_check", !.ts2 = clock]

\* checkPlayerExists(player_id) of POST /global-score; for an unknown player
\* createOrUpdatePlayer is entered, which takes its own timestamp.
GsCheck(r) ==
    /\ req[r].pc = "gs_check"
    /\ LET c == CheckPlayerExists(players, req[r].player_id)
       IN IF c.exists
          THEN /\ req' = [req EXCEPT ![r] = [Call(req[r], "gs_name") EXCEPT !.chk = c]]
               /\ clock' = clock
          ELSE /\ req' = [req EXCEPT ![r] = EnterCreate(Call(req[r], "gs_check"))]
               /\ clock' = clock + 1
    /\ UNCHANGED <<build, global_scores, level_scores, players>>

GsName(r) ==
    /\ req[r].pc = "gs_name"
    /\ players' = UpdateCells(players, req[r].chk.index, [name |-> req[r].player_name])
    /\ req' = [req EXCEPT ![r] = Call(req[r], "gs_last")]
    /\ UNCHANGED <<build, global_scores, level_scores, clock>>

GsLast(r) ==
    /\ req[r].pc = "gs_last"
    /\ players' = UpdateCells(players, req[r].chk.index, [last |-> req[r].ts])
    /\ req' = [req EXCEPT ![r] = Call(req[r], "gs_games")]
    /\ UNCHANGED <<build, global_scores, level_scores, clock>>

GsGames(r) ==
    /\ req[r].pc = "gs_games"
    /\ players' = UpdateCells(players, req[r].chk.index, [games |-> req[r].games])
    /\ req' = [req EXCEPT ![r] = Call(req[r], AfterGames(req[r]))]
    /\ UNCHANGED <<build, global_scores, level_scores, clock>>

GsHigh(r) ==
    /\ req[r].pc = "gs_high"
    /\ players' = UpdateCells(players, req[r].chk.index, [high |-> req[r].score])
    /\ req' = [req EXCEPT ![r] = Call(req[r], AfterHigh(req[r]))]
    /\ UNCHANGED <<build, global_scores, level_scores, clock>>

GsTotal(r) ==
    /\ req[r].pc = "gs_total"
    /\ players' = UpdateCells(players, req[r].chk.index, [total |-> req[r].score])
    /\ req' = [req EXCEPT ![r] = Call(req[r], "pos_read")]
    /\ UNCHANGED <<build, global_scores, level_scores, clock>>


\* ------------------------------------------------- createOrUpdatePlayer
\* The total_score argument of createOrUpdatePlayer: POST /global-score passes
\* the submitted total, every other caller leaves the default 0.
CpTotalArgAlways(rq) == rq.score
CpTotalArg(rq) == IF rq.op = "global_score" THEN rq.score ELSE Num(0)

\* The handler answers 200 as soon as createOrUpdatePlayer has returned and
\* goes on with the rest of its pipeline.
ReturnedAnswered(rq) ==
    IF rq.op = "global_score" THEN [rq EXCEPT !.pc = "pos_read", !.status = 200]
    ELSE IF rq.op = "level_score" THEN [rq EXCEPT !.pc = "us_check", !.status = 200]
    ELSE Respond(rq, 200)
\* The handler after createOrUpdatePlayer has returned.
Returned(rq) ==
    IF rq.op = "global_score" THEN [rq EXCEPT !.pc = "pos_read"]
    ELSE IF rq.op = "level_score" THEN [rq EXCEPT !.pc = "us_check"]
    ELSE Respond(rq, 200)

\* checkPlayerExists(player_id) of createOrUpdatePlayer
CpCheck(r) ==
    /\ req[r].pc = "cp_check"
    /\ LET c == CheckPlayerExists(players, req[r].player_id)
       IN req' = [req EXCEPT ![r] =
                     [Call(req[r], IF c.exists THEN "cp_name" ELSE "cp_append")
                         EXCEPT !.chk = c]]
    /\ UNCHANGED <<build, global_scores, level_scores, players, clock>>

CpName(r) ==
    /\ req[r].pc = "cp_name"
    /\ players' = UpdateCells(players, req[r].chk.index, [name |-> req[r].player_name])
    /\ req' = [req EXCEPT ![r] = Call(req[r], "cp_last")]
    /\ UNCHANGED <<build, global_scores, level_scores, clock>>

\* total_score > 0 || global_position > 0, with global_position 0 from every caller
CpWritesTotal(rq) == JsGreater(CpTotalArg(rq), 0)

CpLast(r) ==
    /\ req[r].pc = "cp_last"
    /\ players' = UpdateCells(players, req[r].chk.index, [last |-> req[r].ts2])
    /\ req' = [req EXCEPT ![r] =
                  IF CpWritesTotal(req[r]) THEN Call(req[r], "cp_total")
                  ELSE Returned(Call(req[r], "cp_last"))]
    /\ UNCHANGED <<build, global_scores, level_scores, clock>>

\* the K:L update of an existing player: [total_score || 0, global_position || 0]
CpTotal(r) ==
    /\ req[r].pc = "cp_total"
    /\ players' = UpdateCells(players, req[r].chk.index,
                      [total |-> OrZero(CpTotalArg(req[r])), pos |-> Num(0)])
    /\ req' = [req EXCEPT ![r] = Returned(Call(req[r], "cp_total"))]
    /\ UNCHANGED <<build, global_scores, level_scores, clock>>

\* The row createOrUpdatePlayer appends for a new player.
NewPlayerRow(rq) ==
    PlayerRow(rq.player_id, rq.player_name, rq.ts2, rq.ts2, Num(0), Num(0),
              "", "", "", Num(0), OrZero(CpTotalArg(rq)), Num(0))

CpAppend(r) ==
    /\ req[r].pc = "cp_append"
    /\ players' = AppendRow(players, NewPlayerRow(req[r]))
    /\ req' = [req EXCEPT ![r] = Returned(Call(req[r], "cp_append"))]
    /\ UNCHANGED <<build, global_scores, level_scores, clock>>

\* ------------------------------------------------------- position pass
\* The inline pass of POST /global-score skips rows marked DELETED;
\* recalculateGlobalPositions ranks every row that is long enough.
SkipDeleted(rq) == rq.op = "global_score"

\* The handler once the last position has been written: POST /global-score
\* answers with the submitting player's place in the sorted snapshot.
PassDone(rq) ==
    IF rq.op = "global_score"
    THEN [Respond(rq, 200) EXCEPT !.position = FindPosition(rq.snap, rq.player_id)]
    ELSE Respond(rq, 200)

\* values.get of the players sheet, then the sort
PosRead(r) ==
    /\ req[r].pc = "pos_read"
    /\ LET snap == SortByTotal(PlayerData(players, SkipDeleted(req[r])))
           rq == [Call(req[r], "pos_write") EXCEPT !.snap = snap, !.i = 1]
       IN req' = [req EXCEPT ![r] = IF snap = <<>> THEN PassDone(rq) ELSE rq]
    /\ UNCHANGED <<build, global_scores, level_scores, players, clock>>

\* const position = i + 1 (the snapshot is 1-based here, 0-based in the code)
RankPositionZeroBased(i) == i - 1
RankPosition(i) == i

\* values.update of the global_position cell of the i-th ranked row
PosWrite(r) ==
    /\ req[r].pc = "pos_write"
    /\ LET rq == req[r]
           nxt == [Call(rq, "pos_write") EXCEPT !.i = rq.i + 1]
       IN /\ players' = UpdateCells(players, rq.snap[rq.i].row_index, [pos |-> Num(RankPosition(rq.i))])
          /\ req' = [req EXCEPT ![r] = IF rq.i = Len(rq.snap) THEN PassDone(nxt) ELSE nxt]
    /\ UNCHANGED <<build, global_scores, level_scores, clock>>

\* ---------------------------------------------------- POST /level-score
\* The required-field check of POST /level-score (time is optional).
LevelScoreMissingOrUnknown(rq) ==
    \/ rq.player_id = ""
    \/ rq.player_name = ""
    \/ rq.level_id \notin {"l1"}
    \/ rq.language = ""
    \/ rq.difficulty = ""
    \/ ~Truthy(rq.score)
LevelScoreMissing(rq) ==
    \/ rq.player_id = ""
    \/ rq.player_name = ""
    \/ rq.level_id = ""
    \/ rq.language = ""
    \/ rq.difficulty = ""
    \/ ~Truthy(rq.score)

StartLevelScore(r, k) ==
    /\ build = "ids"
    /\ CanStart(r, k)
    /\ \E b \in LevelBodies, tm \in TimeInputs :
          LET rq == [IdleReq EXCEPT !.op = "level_score", !.player_id = b.player_id,
                         !.player_name = b.player_name, !.level_id = b.level_id,
                         !.language = b.language, !.difficulty = b.difficulty,
                         !.score = b.score, !.time = tm]
          IN IF LevelScoreMissing(rq)
             THEN /\ req' = Started(r, Respond(rq, 400))
                  /\ clock' = clock
             ELSE /\ req' = Started(r, [rq EXCEPT !.pc = "ls_append", !.ts = clock])
                  /\ clock' = clock + 1
    /\ UNCHANGED <<build, global_scores, level_scores, players>>

\* values.append to level_scores, then createOrUpdatePlayer(player_id, player_name)
LsAppend(r) ==
    /\ req[r].pc = "ls_append"
    /\ level_scores' = AppendRow(level_scores, LevelRow(req[r]))
    /\ req' = [req EXCEPT ![r] = EnterCreate(Call(req[r], "ls_append"))]
    /\ clock' = clock + 1
    /\ UNCHANGED <<build, global_scores, players>>

\* ---------------------------------------------------- updatePlayerStats
\* checkPlayerExists of updatePlayerStats: an unknown player is logged and the
\* function returns, so POST /level-score answers 200.
UsCheck(r) ==
    /\ req[r].pc = "us_check"
    /\ LET c == CheckPlayerExists(players, req[r].player_id)
           rq == [Call(req[r], "us_games") EXCEPT !.chk = c]
       IN req' = [req EXCEPT ![r] = IF c.exists THEN rq ELSE Respond(rq, 200)]
    /\ UNCHANGED <<build, global_scores, level_scores, players, clock>>

\* total_games := parseInt(data[4]) || 0, plus one
UsGames(r) ==
    /\ req[r].pc = "us_games"
    /\ LET rq == req[r]
           nxt == Call(rq, "us_high")
       IN /\ players' = UpdateCells(players, rq.chk.index,
                            [games |-> Num(ParseIntOr0(rq.chk.data.games) + 1)])
          /\ req' = [req EXCEPT ![r] =
                        IF JsGreater(rq.score, ParseIntOr0(rq.chk.data.high))
                        THEN nxt ELSE Respond(nxt, 200)]
    /\ UNCHANGED <<build, global_scores, level_scores, clock>>

\* the F:J update of a new highest score
UsHigh(r) ==
    /\ req[r].pc = "us_high"
    /\ LET rq == req[r]
       IN /\ players' = UpdateCells(players, rq.chk.index,
                            [high |-> rq.score, hs_level |-> rq.level_id,
                             hs_difficulty |-> rq.difficulty,
                             hs_language |-> rq.language, hs_time |-> OrZero(rq.time)])
          /\ req' = [req EXCEPT ![r] = Respond(Call(rq, "us_high"), 200)]
    /\ UNCHANGED <<build, global_scores, level_scores, clock>>

\* ------------------------------------------------- POST /register-player
StartRegisterPlayer(r, k) ==
    /\ CanStart(r, k)
    /\ \E pid \in IdInputs, nm \in NameInputs :
          LET rq == [IdleReq EXCEPT !.op = "register_player", !.player_id = pid,
                         !.player_name = nm]
          IN req' = Started(r, IF pid = "" \/ nm = "" THEN Respond(rq, 400)
                               ELSE [rq EXCEPT !.pc = "rp_check"])
    /\ UNCHANGED <<build, global_scores, level_scores, players, clock>>

\* The registration goes on to createOrUpdatePlayer whether or not the id
\* has a row.
RpCheckNoConflict(r) ==
    /\ req[r].pc = "rp_check"
    /\ req' = [req EXCEPT ![r] = EnterCreate(Call(req[r], "rp_check"))]
    /\ clock' = clock + 1
    /\ UNCHANGED <<build, global_scores, level_scores, players>>
\* checkPlayerExists of POST /register-player: 409 for a known player
RpCheck(r) ==
    /\ req[r].pc = "rp_check"
    /\ LET c == CheckPlayerExists(players, req[r].player_id)
           rq == Call(req[r], "rp_check")
       IN IF c.exists
          THEN /\ req' = [req EXCEPT ![r] = Respond(rq, 409)]
               /\ clock' = clock
          ELSE /\ req' = [req EXCEPT ![r] = EnterCreate(rq)]
               /\ clock' = clock + 1
    /\ UNCHANGED <<build, global_scores, level_scores, players>>

\* --------------------------------------------------- POST /update-player
StartUpdatePlayer(r, k) ==
    /\ CanStart(r, k)
    /\ \E pid \in IdInputs, nm \in NameInputs :
          LET rq == [IdleReq EXCEPT !.op = "update_player", !.player_id = pid,
                         !.player_name = nm]
          IN req' = Started(r, IF pid = "" \/ nm = "" THEN Respond(rq, 400)
                               ELSE [rq EXCEPT !.pc = "up_check"])
    /\ UNCHANGED <<build, global_scores, level_scores, players, clock>>

\* checkPlayerExists of POST /update-player: 404 for an unknown player
UpCheck(r) ==
    /\ req[r].pc = "up_check"
    /\ LET c == CheckPlayerExists(players, req[r].player_id)
           rq == Call(req[r], "up_check")
       IN IF c.exists
          THEN /\ req' = [req EXCEPT ![r] = EnterCreate(rq)]
               /\ clock' = clock + 1
          ELSE /\ req' = [req EXCEPT ![r] = Respond(rq, 404)]
               /\ clock' = clock
    /\ UNCHANGED <<build, global_scores, level_scores, players>>

\* ---------------------------------------------------- POST /reset-player
\* leaderboard-server.js: a full reset overwrites the row with a DELETED marker,
\* any other reset_type zeroes the statistics (D..L).
DeletedRow ==
    PlayerRow("DELETED", "DELETED", 0, 0, Undef, Undef, "", "", "", Undef, Num(0), Num(0))

StartResetPlayer(r, k) ==
    /\ build = "ids"
    /\ CanStart(r, k)
    /\ \E pid \in IdInputs, rt \in ResetTypes :
          LET rq == [IdleReq EXCEPT !.op = "reset_player", !.player_id = pid,
                         !.reset_type = rt]
          IN req' = Started(r, IF pid = "" THEN Respond(rq, 400)
                               ELSE [rq EXCEPT !.pc = "rs_check"])
    /\ UNCHANGED <<build, global_scores, level_scores, players, clock>>

\* checkPlayerExists of POST /reset-player; the statistics reset takes its timestamp
RsCheck(r) ==
    /\ req[r].pc = "rs_check"
    /\ LET c == CheckPlayerExists(players, req[r].player_id)
           rq == [Call(req[r], "rs_check") EXCEPT !.chk = c]
       IN IF ~c.exists
          THEN /\ req' = [req EXCEPT ![r] = Respond(rq, 404)]
               /\ clock' = clock
          ELSE IF rq.reset_type = "full"
          THEN /\ req' = [req EXCEPT ![r] = [rq EXCEPT !.pc = "rs_full"]]
               /\ clock' = clock
          ELSE /\ req' = [req EXCEPT ![r] = [rq EXCEPT !.pc = "rs_stats", !.ts = clock]]
               /\ clock' = clock + 1
    /\ UNCHANGED <<build, global_scores, level_scores, players>>

RsFull(r) ==
    /\ req[r].pc = "rs_full"
    /\ players' = UpdateCells(players, req[r].chk.index, DeletedRow)
    /\ req' = [req EXCEPT ![r] = Respond(Call(req[r], "rs_full"), 200)]
    /\ UNCHANGED <<build, global_scores, level_scores, clock>>

\* The cells D..L a statistics reset writes.
StatsReset(ts) ==
    [last |-> ts, games |-> Num(0), high |-> Num(0), hs_level |-> "",
     hs_difficulty |-> "", hs_language |-> "", hs_time |-> Num(0),
     total |-> Num(0), pos |-> Num(0)]

RsStats(r) ==
    /\ req[r].pc = "rs_stats"
    /\ players' = UpdateCells(players, req[r].chk.index, StatsReset(req[r].ts))
    /\ req' = [req EXCEPT ![r] = Respond(Call(req[r], "rs_stats"), 200)]
    /\ UNCHANGED <<build, global_scores, level_scores, clock>>

\* ------------------------------------------- recalculateGlobalPositions
\* recalculateGlobalPositions() of the nickname build is invoked: it reads the
\* players sheet and rewrites every position, DELETED rows included.
StartRecalc(r, k) ==
    /\ build = "nick"
    /\ CanStart(r, k)
    /\ req' = Started(r, [IdleReq EXCEPT !.op = "recalc", !.pc = "pos_read"])
    /\ UNCHANGED <<build, global_scores, level_scores, players, clock>>

\* ------------------------------------------------- a client that floods
\* The body the flooding client posts to /global-score.
FloodBody == [player_id |-> "p1", player_name |-> "a", score |-> Num(1), games |-> Num(1)]

\* The client posts its next submission as soon as the last one is answered.
StartFlood(r) ==
    /\ build = "ids"
    /\ r = 1
    /\ req[r].pc \in {"idle", "done"}
    /\ req[r].seq < MaxFlood
    /\ req' = [req EXCEPT ![r] =
                  [IdleReq EXCEPT !.op = "global_score", !.pc = "gs_append",
                       !.seq = req[r].seq + 1, !.player_id = FloodBody.player_id,
                       !.player_name = FloodBody.player_name,
                       !.score = FloodBody.score, !.games = FloodBody.games,
                       !.ts = clock]]
    /\ clock' = clock + 1
    /\ UNCHANGED <<build, global_scores, level_scores, players>>

\* ------------------------------------------------------------- queries
SliceAll(s, n) == s
\* formattedData.slice(0, n)
Slice(s, n) == SubSeq(s, 1, IF Len(s) < n THEN Len(s) ELSE n)

\* The places 1..Len(key) in the order Array.prototype.sort (stable) gives
\* them under a descending comparator on key, for the key values in K: the
\* places with the largest key first, in their original order, then the rest.
RECURSIVE DescendingOrder(_, _)
DescendingOrder(key, K) ==
    IF K = {} THEN <<>>
    ELSE LET top == CHOOSE v \in K : \A w \in K : w <= v
             IsTop(k) == key[k] = top
         IN SelectSeq([k \in 1..Len(key) |-> k], IsTop)
                \o DescendingOrder(key, K \ {top})

SortDescending(s, key) ==
    LET order == DescendingOrder(key, {key[k] : k \in 1..Len(key)})
    IN [a \in 1..Len(s) |-> s[order[a]]]

\* The filter of GET /global-leaderboard: the row is long enough and not
\* marked DELETED.
GlobalBoardKeeps(row) == RowLen(row) >= 11 /\ row.id # "DELETED"

\* formattedData of GET /global-leaderboard: the players rows from row j on
\* that pass the filter, in sheet order.
GlobalBoardFrom(sheet, j) ==
    LET kept == SelectSeq(SubSeq(sheet, j, Len(sheet)), GlobalBoardKeeps)
    IN [a \in 1..Len(kept) |->
           [player_id |-> kept[a].id, player_name |-> kept[a].name,
            total_score |-> ParseIntOr0(kept[a].total),
            global_position |-> ParseIntOr0(kept[a].pos)]]

SortBoardNone(s) == s
\* formattedData.sort((a, b) => b.total_score - a.total_score)
SortBoardByTotal(s) == SortDescending(s, [k \in 1..Len(s) |-> s[k].total_score])

\* The body GET /global-leaderboard answers with: sorted by total_score, the
\* first 100.
GlobalBoard(sheet) ==
    Slice(SortBoardByTotal(GlobalBoardFrom(sheet, StartIndex(sheet))), MAX_ENTRIES)

StartGlobalBoard(r, k) ==
    /\ build = "ids"
    /\ CanStart(r, k)
    /\ req' = Started(r, [IdleReq EXCEPT !.op = "global_board", !.pc = "gb_read"])
    /\ UNCHANGED <<build, global_scores, level_scores, players, clock>>

\* values.get of the players sheet by GET /global-leaderboard, then res.json
GbRead(r) ==
    /\ req[r].pc = "gb_read"
    /\ req' = [req EXCEPT ![r] =
                  [Respond(Call(req[r], "gb_read"), 200)
                      EXCEPT !.result = GlobalBoard(players)]]
    /\ UNCHANGED <<build, global_scores, level_scores, players, clock>>

\* formattedData.sort((a, b) => b.score - a.score)
SortByScore(s) == SortDescending(s, [k \in 1..Len(s) |-> s[k].score])

\* row.length of a level_scores row: every row is written with its 7 cells.
LevelRowLen(row) == 7

\* The filter of GET /level-leaderboard: the level, and the language and the
\* difficulty when the query gives them.
LevelMatchesAnyLevel(row, rq) ==
    /\ rq.language = "" \/ row.language = rq.language
    /\ rq.difficulty = "" \/ row.difficulty = rq.difficulty
LevelMatchesLevelAndLanguage(row, rq) ==
    /\ row.level_id = rq.level_id
    /\ rq.language = "" \/ row.language = rq.language
LevelMatches(row, rq) ==
    /\ row.level_id = rq.level_id
    /\ rq.language = "" \/ row.language = rq.language
    /\ rq.difficulty = "" \/ row.difficulty = rq.difficulty

LevelBoardFrom(sheet, j, rq) ==
    LET Keeps(row) == LevelRowLen(row) >= 6 /\ LevelMatches(row, rq)
        kept == SelectSeq(SubSeq(sheet, j, Len(sheet)), Keeps)
    IN [a \in 1..Len(kept) |->
           [player_name |-> kept[a].name, level_id |-> kept[a].level_id,
            language |-> kept[a].language, difficulty |-> kept[a].difficulty,
            score |-> ParseIntOr0(kept[a].score), timestamp |-> kept[a].ts]]

\* The body GET /level-leaderboard answers with: every matching row, sorted by score.
LevelBoard(sheet, rq) == SortByScore(LevelBoardFrom(sheet, StartIndex(sheet), rq))

StartLevelBoard(r, k) ==
    /\ build = "ids"
    /\ CanStart(r, k)
    /\ \E lv \in LevelInputs, lg \in LanguageInputs, df \in DifficultyInputs :
          LET rq == [IdleReq EXCEPT !.op = "level_board", !.level_id = lv,
                         !.language = lg, !.difficulty = df]
          IN req' = Started(r, IF lv = "" THEN Respond(rq, 400)
                               ELSE [rq EXCEPT !.pc = "lb_read"])
    /\ UNCHANGED <<build, global_scores, level_scores, players, clock>>

\* values.get of level_scores by GET /level-leaderboard, then res.json
LbRead(r) ==
    /\ req[r].pc = "lb_read"
    /\ req' = [req EXCEPT ![r] =
                  [Respond(Call(req[r], "lb_read"), 200)
                      EXCEPT !.result = LevelBoard(level_scores, req[r])]]
    /\ UNCHANGED <<build, global_scores, level_scores, players, clock>>

\* rows.map of GET /leaderboard over the range A2:C of global_scores: the first
\* row of the sheet is never read.
LegacyBoardFrom(sheet, j) ==
    LET rows == SubSeq(sheet, j, Len(sheet))
    IN [a \in 1..Len(rows) |->
           [player_id |-> rows[a].id, player_name |-> rows[a].name,
            score |-> ParseIntOr0(rows[a].score)]]

LegacyBoard(sheet) == SortByScore(LegacyBoardFrom(sheet, 2))

StartLegacyBoard(r, k) ==
    /\ build = "ids"
    /\ CanStart(r, k)
    /\ req' = Started(r, [IdleReq EXCEPT !.op = "legacy_board", !.pc = "lg_read"])
    /\ UNCHANGED <<build, global_scores, level_scores, players, clock>>

\* values.get of global_scores!A2:C by GET /leaderboard, then res.json
LgRead(r) ==
    /\ req[r].pc = "lg_read"
    /\ req' = [req EXCEPT ![r] =
                  [Respond(Call(req[r], "lg_read"), 200)
                      EXCEPT !.result = LegacyBoard(global_scores)]]
    /\ UNCHANGED <<build, global_scores, level_scores, players, clock>>

\* playerData of GET /player-info
PlayerInfoShifted(row) ==
    [player_id |-> row.id, player_name |-> row.name, created |-> row.created,
     last_record |-> row.last, total_games |-> ParseIntOr0(row.games),
     highest_score |-> ParseIntOr0(row.high), hs_level |-> row.hs_level,
     hs_difficulty |-> row.hs_difficulty, hs_language |-> row.hs_language,
     hs_time |-> ParseIntOr0(row.hs_time), total_score |-> ParseIntOr0(row.pos),
     global_position |-> 0]
PlayerInfo(row) ==
    [player_id |-> row.id, player_name |-> row.name, created |-> row.created,
     last_record |-> row.last, total_games |-> ParseIntOr0(row.games),
     highest_score |-> ParseIntOr0(row.high), hs_level |-> row.hs_level,
     hs_difficulty |-> row.hs_difficulty, hs_language |-> row.hs_language,
     hs_time |-> ParseIntOr0(row.hs_time), total_score |-> ParseIntOr0(row.total),
     global_position |-> ParseIntOr0(row.pos)]

StartPlayerInfo(r, k) ==
    /\ CanStart(r, k)
    /\ \E pid \in IdInputs :
          LET rq == [IdleReq EXCEPT !.op = "player_info", !.player_id = pid]
          IN req' = Started(r, IF pid = "" THEN Respond(rq, 400)
                               ELSE [rq EXCEPT !.pc = "pi_check"])
    /\ UNCHANGED <<build, global_scores, level_scores, players, clock>>

\* checkPlayerExists of GET /player-info: 404 for an unknown player
PiCheckAndStamp(r) ==
    /\ req[r].pc = "pi_check"
    /\ LET c == CheckPlayerExists(players, req[r].player_id)
           rq == [Call(req[r], "pi_check") EXCEPT !.chk = c]
       IN /\ req' = [req EXCEPT ![r] =
                        IF c.exists
                        THEN [Respond(rq, 200) EXCEPT !.result = <<PlayerInfo(c.data)>>]
                        ELSE Respond(rq, 404)]
          /\ players' = IF c.exists
                        THEN UpdateCells(players, c.index, [last |-> clock])
                        ELSE players
    /\ UNCHANGED <<build, global_scores, level_scores, clock>>
PiCheck(r) ==
    /\ req[r].pc = "pi_check"
    /\ LET c == CheckPlayerExists(players, req[r].player_id)
           rq == [Call(req[r], "pi_check") EXCEPT !.chk = c]
       IN req' = [req EXCEPT ![r] =
                     IF c.exists
                     THEN [Respond(rq, 200) EXCEPT !.result = <<PlayerInfo(c.data)>>]
                     ELSE Respond(rq, 404)]
    /\ UNCHANGED <<build, global_scores, level_scores, players, clock>>

\* ------------------------------------------- the DELETED marker as an id
\* A client sends the text of the deletion marker as its player_id: the same
\* entry of POST /update-player and of GET /player-info as above.
StartUpdateDeleted(r, k) ==
    /\ CanStart(r, k)
    /\ \E nm \in NameInputs :
          LET rq == [IdleReq EXCEPT !.op = "update_player", !.player_id = "DELETED",
                         !.player_name = nm]
          IN req' = Started(r, IF nm = "" THEN Respond(rq, 400)
                               ELSE [rq EXCEPT !.pc = "up_check"])
    /\ UNCHANGED <<build, global_scores, level_scores, players, clock>>

StartInfoDeleted(r, k) ==
    /\ CanStart(r, k)
    /\ req' = Started(r, [IdleReq EXCEPT !.op = "player_info", !.player_id = "DELETED",
                              !.pc = "pi_check"])
    /\ UNCHANGED <<build, global_scores, level_scores, players, clock>>

\* ------------------------------------------------------ GET /test-auth
\* The characters of the access token that the response shows.
TOKEN_PREFIX == 10

\* Access tokens the auth client may hand out: one character longer than
\* the shown prefix, all the same but for at most one character.
Tokens ==
    {[k \in 1..TOKEN_PREFIX + 1 |-> IF k = d THEN "y" ELSE "x"] :
        d \in 0..TOKEN_PREFIX + 1}

\* token.token.substring(0, 10) + "..."
ShownToken(tok) ==
    SubSeq(tok, 1, IF Len(tok) < TOKEN_PREFIX THEN Len(tok) ELSE TOKEN_PREFIX)
        \o <<".", ".", ".">>

StartTestAuth(r, k) ==
    /\ CanStart(r, k)
    /\ req' = Started(r, [IdleReq EXCEPT !.op = "test_auth", !.pc = "ta_client"])
    /\ UNCHANGED <<build, global_scores, level_scores, players, clock>>

\* await auth.getClient()
TaClient(r) ==
    /\ req[r].pc = "ta_client"
    /\ req' = [req EXCEPT ![r] = Call(req[r], "ta_token")]
    /\ UNCHANGED <<build, global_scores, level_scores, players, clock>>

\* await authClient.getAccessToken(), then res.json with the message and the
\* shown part of the token
TaToken(r) ==
    /\ req[r].pc = "ta_token"
    /\ \E tok \in Tokens :
          req' = [req EXCEPT ![r] =
                     [Respond(Call(req[r], "ta_token"), 200)
                         EXCEPT !.token = tok,
                                !.result = <<[message |-> "Google Auth Success!",
                                              accessToken |-> ShownToken(tok)]>>]]
    /\ UNCHANGED <<build, global_scores, level_scores, players, clock>>

\* One step of a query of request r with at most k requests in flight.
QueryStep(r, k) ==
    \/ StartGlobalBoard(r, k)
    \/ GbRead(r)
    \/ StartLevelBoard(r, k)
    \/ LbRead(r)
    \/ StartLegacyBoard(r, k)
    \/ LgRead(r)
    \/ StartPlayerInfo(r, k)
    \/ PiCheck(r)

\* ------------------------------------------------------ storage failure
\* The pending storage call of the request throws: the handler's catch answers 500.
StorageFail(r) ==
    /\ req[r].op # "idle"
    /\ req[r].pc # "done"
    /\ req' = [req EXCEPT ![r] = Respond(Call(req[r], "done"), 500)]
    /\ UNCHANGED <<build, global_scores, level_scores, players, clock>>

\* ----------------------------------------------------------------- system
\* The spreadsheet before the first request, with or without header rows.
InitSheets ==
    \E header \in BOOLEAN :
        /\ global_scores = IF header THEN <<GlobalHeader>> ELSE <<>>
        /\ level_scores = IF header THEN <<LevelHeader>> ELSE <<>>
        /\ players = IF header THEN <<PlayersHeader>> ELSE <<>>

Init ==
    /\ build = "ids"
    /\ InitSheets
    /\ clock = 1
    /\ req = [r \in Slots |-> IdleReq]

\* One step of request r with at most k requests in flight: every handler
\* step except the K:L write of createOrUpdatePlayer.
HandlerStep(r, k) ==
    \/ StartGlobalScore(r, k)
    \/ GsAppend(r)
    \/ GsCheck(r)
    \/ GsName(r)
    \/ GsLast(r)
    \/ GsGames(r)
    \/ GsHigh(r)
    \/ GsTotal(r)
    \/ StartLevelScore(r, k)
    \/ LsAppend(r)
    \/ UsCheck(r)
    \/ UsGames(r)
    \/ UsHigh(r)
    \/ StartRegisterPlayer(r, k)
    \/ RpCheck(r)
    \/ StartUpdatePlayer(r, k)
    \/ UpCheck(r)
    \/ StartResetPlayer(r, k)
    \/ RsCheck(r)
    \/ RsFull(r)
    \/ RsStats(r)
    \/ CpCheck(r)
    \/ CpName(r)
    \/ CpLast(r)
    \/ CpAppend(r)
    \/ PosRead(r)
    \/ PosWrite(r)
    \/ StorageFail(r)

\* Requests one at a time.  createOrUpdatePlayer is given a total only by POST
\* /global-score, and only for a player its own check did not find, so without
\* a concurrent request it never reaches its K:L write.
Next == \E r \in Slots : HandlerStep(r, 1)
Spec == Init /\ [][Next]_vars

\* Up to MaxReq requests in flight, interleaved at their storage calls.
NextConc == \E r \in Slots : HandlerStep(r, MaxReq) \/ CpTotal(r)
SpecConc == Init /\ [][NextConc]_vars

\* Submissions, maintenance and queries, one request at a time.
NextQuery == \E r \in Slots : HandlerStep(r, 1) \/ QueryStep(r, 1)
SpecQuery == Init /\ [][NextQuery]_vars

\* The spreadsheet after one accepted POST /global-score of player p1, the first
\* request the server ever handled.
InitRanked ==
    /\ build = "ids"
    /\ \E header \in BOOLEAN, n \in 1..MaxScore :
          /\ global_scores = (IF header THEN <<GlobalHeader>> ELSE <<>>)
                \o <<[id |-> "p1", name |-> "a", score |-> Num(n), games |-> Num(1),
                      ts |-> 1]>>
          /\ level_scores = IF header THEN <<LevelHeader>> ELSE <<>>
          /\ players = (IF header THEN <<PlayersHeader>> ELSE <<>>)
                \o <<PlayerRow("p1", "a", 2, 2, Num(0), Num(0), "", "", "", Num(0),
                                Num(n), Num(1))>>
    /\ clock = 3
    /\ req = [r \in Slots |-> IdleReq]

\* Global submissions and global leaderboard reads, up to MaxReq in flight,
\* once a first player is ranked.
NextRanked ==
    \E r \in Slots :
        \/ StartGlobalScore(r, MaxReq)
        \/ GsAppend(r)
        \/ GsCheck(r)
        \/ GsName(r)
        \/ GsLast(r)
        \/ GsGames(r)
        \/ GsHigh(r)
        \/ GsTotal(r)
        \/ CpCheck(r)
        \/ CpName(r)
        \/ CpLast(r)
        \/ CpTotal(r)
        \/ CpAppend(r)
        \/ PosRead(r)
        \/ PosWrite(r)
        \/ StartGlobalBoard(r, MaxReq)
        \/ GbRead(r)
        \/ StorageFail(r)
SpecRanked == InitRanked /\ [][NextRanked]_vars

\* Renames and resets of players, up to MaxReq in flight, once a first player
\* is ranked.
NextUpkeep ==
    \E r \in Slots :
        \/ StartUpdatePlayer(r, MaxReq)
        \/ UpCheck(r)
        \/ StartResetPlayer(r, MaxReq)
        \/ RsCheck(r)
        \/ RsFull(r)
        \/ RsStats(r)
        \/ CpCheck(r)
        \/ CpName(r)
        \/ CpLast(r)
        \/ CpAppend(r)
        \/ StorageFail(r)
SpecUpkeep == InitRanked /\ [][NextUpkeep]_vars

\* Every handler and every query, one request at a time, once a first player
\* is ranked; clients may also send the deletion marker as a player_id.
NextMarker ==
    \E r \in Slots :
        \/ HandlerStep(r, 1)
        \/ QueryStep(r, 1)
        \/ StartUpdateDeleted(r, 1)
        \/ StartInfoDeleted(r, 1)
SpecMarker == InitRanked /\ [][NextMarker]_vars

\* The pending storage call of submission r returns, or it fails. (The K:L
\* write of createOrUpdatePlayer is reached only with requests in flight
\* together.)
SubmitStep(r) ==
    \/ GsAppend(r)
    \/ GsCheck(r)
    \/ GsName(r)
    \/ GsLast(r)
    \/ GsGames(r)
    \/ GsHigh(r)
    \/ GsTotal(r)
    \/ LsAppend(r)
    \/ UsCheck(r)
    \/ UsGames(r)
    \/ UsHigh(r)
    \/ CpCheck(r)
    \/ CpName(r)
    \/ CpLast(r)
    \/ CpAppend(r)
    \/ PosRead(r)
    \/ PosWrite(r)
    \/ StorageFail(r)

\* Score submissions only, one request at a time; every storage call that
\* is pending eventually returns or fails.
NextSubmit ==
    \E r \in Slots :
        \/ StartGlobalScore(r, 1)
        \/ StartLevelScore(r, 1)
        \/ SubmitStep(r)
SpecSubmit == Init /\ [][NextSubmit]_vars /\ \A r \in Slots : WF_vars(SubmitStep(r))

\* One client posting the same global score again and again, no storage failure.
NextFlood ==
    \E r \in Slots :
        \/ StartFlood(r)
        \/ GsAppend(r)
        \/ GsCheck(r)
        \/ GsName(r)
        \/ GsLast(r)
        \/ GsGames(r)
        \/ GsHigh(r)
        \/ CpCheck(r)
        \/ CpAppend(r)
        \/ PosRead(r)
        \/ PosWrite(r)
SpecFlood == Init /\ [][NextFlood]_vars

\* recalculateGlobalPositions run on a players sheet as earlier runs of either
\* build left it: up to MaxRows rows, some marked DELETED, some without a
\* total_score or a position cell.
SeedId(k) == IF k = 1 THEN "p1" ELSE IF k = 2 THEN "DELETED" ELSE "p2"
SeedCells == ({Undef} \cup {Num(n) : n \in 0..MaxScore}) \X {Undef, Num(0), Num(1)}
SeedRow(k, cells) ==
    PlayerRow(SeedId(k), "a", 1, 1, Num(0), Num(0), "", "", "", Num(0), cells[1], cells[2])

InitRecalc ==
    /\ build = "nick"
    /\ global_scores = <<>>
    /\ level_scores = <<>>
    /\ \E header \in BOOLEAN, n \in 0..MaxRows :
          \E cells \in [1..n -> SeedCells] :
              players = (IF header THEN <<PlayersHeader>> ELSE <<>>)
                            \o [k \in 1..n |-> SeedRow(k, cells[k])]
    /\ clock = 2
    /\ req = [r \in Slots |-> IdleReq]

NextRecalc ==
    \E r \in Slots :
        \/ StartRecalc(r, 1)
        \/ PosRead(r)
        \/ PosWrite(r)
        \/ StorageFail(r)
SpecRecalc == InitRecalc /\ [][NextRecalc]_vars

\* ---------------------------------------------------- a full leaderboard
\* Players that have played before the behaviour starts: one more than a
\* leaderboard page holds.
CrowdIds ==
    <<
      "c001", "c002", "c003", "c004", "c005", "c006", "c007", "c008",
      "c009", "c010", "c011", "c012", "c013", "c014", "c015", "c016",
      "c017", "c018", "c019", "c020", "c021", "c022", "c023", "c024",
      "c025", "c026", "c027", "c028", "c029", "c030", "c031", "c032",
      "c033", "c034", "c035", "c036", "c037", "c038", "c039", "c040",
      "c041", "c042", "c043", "c044", "c045", "c046", "c047", "c048",
      "c049", "c050", "c051", "c052", "c053", "c054", "c055", "c056",
      "c057", "c058", "c059", "c060", "c061", "c062", "c063", "c064",
      "c065", "c066", "c067", "c068", "c069", "c070", "c071", "c072",
      "c073", "c074", "c075", "c076", "c077", "c078", "c079", "c080",
      "c081", "c082", "c083", "c084", "c085", "c086", "c087", "c088",
      "c089", "c090", "c091", "c092", "c093", "c094", "c095", "c096",
      "c097", "c098", "c099", "c100", "c101"
    >>

\* The rows player k of the crowd left behind: a POST /global-score with
\* total t as a new player, then a POST /level-score with score 1 on level
\* l1, in the player's language and difficulty; each request takes two
\* timestamps.
CrowdGlobalRow(k, t) ==
    [id |-> CrowdIds[k], name |-> "a", score |-> Num(t), games |-> Num(1),
     ts |-> 4 * (k - 1) + 1]
CrowdLanguage(k) == IF k % 2 = 1 THEN "en" ELSE "fr"
CrowdDifficulty(k) == IF k % 3 = 0 THEN "hard" ELSE "easy"
CrowdLevelRow(k) ==
    [id |-> CrowdIds[k], name |-> "a", level_id |-> "l1",
     language |-> CrowdLanguage(k), difficulty |-> CrowdDifficulty(k),
     score |-> Num(1), ts |-> 4 * (k - 1) + 3]
CrowdPlayerRow(k, t) ==
    PlayerRow(CrowdIds[k], "a", 4 * (k - 1) + 2, 4 * (k - 1) + 4, Num(1), Num(1),
              "l1", CrowdDifficulty(k), CrowdLanguage(k), Num(0), Num(t), Num(k))

\* The spreadsheet once n players have each posted the same total and one
\* level score, one after the other: the last position pass ranked them in
\* sheet order.
InitCrowd ==
    /\ build = "ids"
    /\ \E header \in BOOLEAN, n \in {1, MAX_ENTRIES + 1}, t \in 1..MaxScore :
          /\ global_scores = (IF header THEN <<GlobalHeader>> ELSE <<>>)
                \o [k \in 1..n |-> CrowdGlobalRow(k, t)]
          /\ level_scores = (IF header THEN <<LevelHeader>> ELSE <<>>)
                \o [k \in 1..n |-> CrowdLevelRow(k)]
          /\ players = (IF header THEN <<PlayersHeader>> ELSE <<>>)
                \o [k \in 1..n |-> CrowdPlayerRow(k, t)]
          /\ clock = 4 * n + 1
    /\ req = [r \in Slots |-> IdleReq]

\* Level submissions and leaderboard queries, one request at a time, no
\* storage failure.
NextCrowd ==
    \E r \in Slots :
        \/ StartLevelScore(r, 1)
        \/ LsAppend(r)
        \/ UsCheck(r)
        \/ UsGames(r)
        \/ UsHigh(r)
        \/ CpCheck(r)
        \/ CpName(r)
        \/ CpLast(r)
        \/ CpAppend(r)
        \/ StartGlobalBoard(r, 1)
        \/ GbRead(r)
        \/ StartLevelBoard(r, 1)
        \/ LbRead(r)
SpecCrowd == InitCrowd /\ [][NextCrowd]_vars

\* GET /test-auth requests, up to MaxReq at a time; the auth client may fail.
NextAuth ==
    \E r \in Slots :
        \/ StartTestAuth(r, MaxReq)
        \/ TaClient(r)
        \/ TaToken(r)
        \/ StorageFail(r)
SpecAuth == Init /\ [][NextAuth]_vars


\* ======================================================================
\* Properties
\* ======================================================================
\* Request r has answered and no later request has arrived.
Latest(r) ==
    /\ req[r].pc = "done"
    /\ \A q \in Slots : q > r => req[q].op = "idle"

\* The rows of the players sheet that a rank recalculation ranks.
Ranked == {j \in StartIndex(players)..Len(players) :
              RowLen(players[j]) >= 11 /\ players[j].id # "DELETED"}

StoredPosition(j) == ParseIntOr0(players[j].pos)
StoredTotal(j) == ParseIntOr0(players[j].total)

\* POST /global-score has just run its position pass to the end.
PassCompleted ==
    \E r \in Slots : Latest(r) /\ req[r].op = "global_score" /\ req[r].status = 200

\* C1: once the position pass of a POST /global-score has completed with no
\* concurrent request, the stored positions of the N ranked rows are exactly
\* 1..N, each held by one row.
C1_PositionsArePermutation ==
    PassCompleted =>
        /\ {StoredPosition(j) : j \in Ranked} = 1..Cardinality(Ranked)
        /\ \A a, b \in Ranked : StoredPosition(a) = StoredPosition(b) => a = b

\* C1 reached: a completed pass over at least two ranked rows.
C1_Witness ==
    /\ PassCompleted
    /\ Cardinality(Ranked) >= 2
    /\ {StoredPosition(j) : j \in Ranked} = 1..Cardinality(Ranked)

\* C3 as stated: of two ranked rows with equal score the one with the later
\* timestamp (last_record) has the strictly smaller position.
C3_LaterTimestampWinsTie ==
    PassCompleted =>
        \A a, b \in Ranked :
            (StoredTotal(a) = StoredTotal(b) /\ players[a].last > players[b].last)
                => StoredPosition(a) < StoredPosition(b)

\* C3 amended: the sort compares scores only and is stable, so of two ranked
\* rows with equal score the one stored in the earlier row has the strictly
\* smaller position, whatever the timestamps; a higher score always ranks first.
C3_EarlierRowWinsTie ==
    PassCompleted =>
        \A a, b \in Ranked :
            /\ (StoredTotal(a) = StoredTotal(b) /\ a < b)
                   => StoredPosition(a) < StoredPosition(b)
            /\ StoredTotal(a) > StoredTotal(b) => StoredPosition(a) < StoredPosition(b)

\* C3 reached: a completed pass with a tie in which the earlier row, holding
\* the earlier timestamp, is first.
C3_Witness ==
    /\ PassCompleted
    /\ \E a, b \in Ranked :
          /\ a < b
          /\ StoredTotal(a) = StoredTotal(b)
          /\ players[a].last < players[b].last
          /\ StoredPosition(a) = 1
          /\ StoredPosition(b) = 2


\* Every request was a POST /global-score, each of another player, and all
\* have answered 200.
AllGlobalDone ==
    /\ \A r \in Slots :
          req[r].op = "global_score" /\ req[r].pc = "done" /\ req[r].status = 200
    /\ \A r, q \in Slots : r # q => req[r].player_id # req[q].player_id

\* C2 as stated: when all the POST /global-score requests of distinct players,
\* issued concurrently, have answered 200, every submission has its row and the
\* stored positions of the ranked players are pairwise distinct.
C2_NoLostUpdate ==
    AllGlobalDone =>
        /\ \A r \in Slots :
              /\ \E j \in 1..Len(global_scores) : global_scores[j].id = req[r].player_id
              /\ \E j \in Ranked : players[j].id = req[r].player_id
        /\ \A a, b \in Ranked : a # b => StoredPosition(a) # StoredPosition(b)

\* Request r is a run of recalculateGlobalPositions in progress that directly
\* follows a completed run.
SecondPass(r) ==
    /\ req[r].op = "recalc"
    /\ req[r].pc # "done"
    /\ IF r = 1 THEN FALSE ELSE req[r - 1].op = "recalc" /\ req[r - 1].status = 200

\* C4: a second run of recalculateGlobalPositions, following a completed run
\* with no write in between, changes no cell of the players sheet.
C4_RecalcIdempotent ==
    [][\A r \in Slots : SecondPass(r) => players' = players]_vars

\* C4 reached: a second run has completed after a completed one, on a sheet
\* whose rows the ranking reorders.
C4_Witness ==
    /\ \E r \in Slots :
          /\ IF r = 1 THEN FALSE ELSE req[r - 1].op = "recalc" /\ req[r - 1].status = 200
          /\ req[r].op = "recalc" /\ req[r].pc = "done" /\ req[r].status = 200
          /\ req[r].ncalls >= 3
    /\ \E a, b \in StartIndex(players)..Len(players) :
          /\ a < b
          /\ StoredTotal(a) < StoredTotal(b)
          /\ StoredPosition(a) = 2
          /\ StoredPosition(b) = 1

\* Rows of a score sheet past its header row.
DataRowCount(sheet) ==
    IF Len(sheet) > 0 /\ sheet[1].id = "player_id" THEN Len(sheet) - 1 ELSE Len(sheet)

\* Submissions of the flooding client answered 200 so far.
FloodAccepted ==
    IF req[1].op = "idle" THEN 0
    ELSE IF req[1].pc = "done" /\ req[1].status = 200 THEN req[1].seq
    ELSE req[1].seq - 1

LevelRowsOf(p) == {j \in 1..Len(level_scores) : level_scores[j].id = p}
ScopeOfRow(j) ==
    <<level_scores[j].level_id, level_scores[j].language, level_scores[j].difficulty>>
ScopesOf(p) == {ScopeOfRow(j) : j \in LevelRowsOf(p)}
BestIn(p, sc) ==
    LET scores == {ParseIntOr0(level_scores[j].score) :
                      j \in {k \in LevelRowsOf(p) : ScopeOfRow(k) = sc}}
    IN CHOOSE m \in scores : \A n \in scores : m >= n
RECURSIVE SumBests(_, _)
SumBests(p, S) ==
    IF S = {} THEN 0
    ELSE LET sc == CHOOSE x \in S : TRUE
         IN BestIn(p, sc) + SumBests(p, S \ {sc})

PlayerRowsOf(p) == {j \in StartIndex(players)..Len(players) : players[j].id = p}

LevelScoreCompleted(r) ==
    Latest(r) /\ req[r].op = "level_score" /\ req[r].status = 200

\* C6 as stated: after a level submission of p the stored total_score of p is
\* the sum over the level scopes of p's best score in each.  (The players sheet
\* has no column for the number of completed levels.)
C6_TotalIsSumOfBests ==
    \A r \in Slots :
        LevelScoreCompleted(r) =>
            \E j \in PlayerRowsOf(req[r].player_id) :
                StoredTotal(j) = SumBests(req[r].player_id, ScopesOf(req[r].player_id))

\* C6 amended: no step of a level submission changes a total_score cell, and
\* the row it creates for a new player has total_score 0; when it completes
\* the player's total_games is one more than the handler read.
C6_LevelScoreKeepsTotal ==
    /\ [][\A r \in Slots :
            (req[r].op = "level_score" /\ req[r].pc # "done") =>
                \A j \in 1..Len(players') :
                    IF j <= Len(players)
                    THEN players'[j].total = players[j].total
                    ELSE players'[j].total = Num(0)]_vars
    /\ [](\A r \in Slots :
            LevelScoreCompleted(r) =>
                \E j \in PlayerRowsOf(req[r].player_id) :
                    players[j].games = Num(ParseIntOr0(req[r].chk.data.games) + 1))

\* C6 reached: a completed level submission with the largest score whose
\* player still has total_score 0.
C6_Witness ==
    \E r \in Slots :
        /\ LevelScoreCompleted(r)
        /\ req[r].score = Num(MaxScore)
        /\ \E j \in PlayerRowsOf(req[r].player_id) :
              /\ players[j].total = Num(0)
              /\ players[j].games = Num(1)
              /\ players[j].high = Num(MaxScore)

\* A score submission one of whose required fields is absent from the body.
FieldAbsent(rq) ==
    \/ rq.player_id = ""
    \/ rq.player_name = ""
    \/ rq.score = Undef
    \/ rq.op = "global_score" /\ rq.games = Undef
    \/ rq.op = "level_score" /\ (rq.level_id = "" \/ rq.language = "" \/ rq.difficulty = "")

\* C7: a score submission with a required field missing is answered 400 as it
\* arrives, before any storage call, and no sheet changes.
C7_MissingFieldRejected ==
    [][\A r \in Slots :
          (/\ req[r].op = "idle"
           /\ req'[r].op \in {"global_score", "level_score"}
           /\ FieldAbsent(req'[r]))
              => /\ req'[r].pc = "done"
                 /\ req'[r].status = 400
                 /\ req'[r].ncalls = 0
                 /\ sheets' = sheets]_vars

\* C7 reached: a submission without its score refused untouched, after an
\* accepted one.
C7_Witness ==
    \E r, q \in Slots :
        /\ req[q].op = "global_score" /\ req[q].status = 200
        /\ req[r].op \in {"global_score", "level_score"}
        /\ req[r].player_id # "" /\ req[r].player_name # ""
        /\ req[r].score = Undef
        /\ req[r].pc = "done" /\ req[r].status = 400 /\ req[r].ncalls = 0

\* A score that is not a number, or not a positive one.
InvalidScore(v) == v = NaNStr \/ (v[1] = "num" /\ v[2] <= 0)

\* C8 as stated: a submission whose score is not a number or not positive, or
\* whose name is empty, is answered 400 and issues no storage call.
C8_InvalidScoreRejected ==
    \A r \in Slots :
        (/\ req[r].op \in {"global_score", "level_score"}
         /\ InvalidScore(req[r].score) \/ req[r].player_name = "")
            => /\ req[r].ncalls = 0
               /\ req[r].pc = "done" => req[r].status = 400

\* The levels the game ships with; the server keeps no such list.
ProvisionedLevels == {"l1"}

\* C9 as stated: a level submission naming a level that is not provisioned is
\* answered 404 and issues no storage call.
C9_UnknownLevelRejected ==
    \A r \in Slots :
        (/\ req[r].op = "level_score"
         /\ req[r].level_id # ""
         /\ req[r].level_id \notin ProvisionedLevels)
            => /\ req[r].ncalls = 0
               /\ req[r].pc = "done" => req[r].status = 404

\* C9 amended: there is no provisioning; a level submission with every field
\* present is never refused (no 400, no 404) whatever level it names, and once
\* it has answered 200 its row is in level_scores.
C9_AnyLevelAccepted ==
    \A r \in Slots :
        (/\ req[r].op = "level_score"
         /\ ~FieldAbsent(req[r])
         /\ Truthy(req[r].score))
            => /\ req[r].status \notin {400, 404}
               /\ req[r].status = 200 =>
                     \E j \in 1..Len(level_scores) :
                         /\ level_scores[j].id = req[r].player_id
                         /\ level_scores[j].level_id = req[r].level_id
                         /\ level_scores[j].language = req[r].language
                         /\ level_scores[j].difficulty = req[r].difficulty
                         /\ level_scores[j].score = req[r].score

\* C9 reached: a level submission for a level outside ProvisionedLevels was
\* stored and answered 200.
C9_Witness ==
    \E r \in Slots :
        /\ LevelScoreCompleted(r)
        /\ req[r].level_id \notin ProvisionedLevels
        /\ \E j \in 1..Len(level_scores) :
              level_scores[j].id = req[r].player_id
                  /\ level_scores[j].level_id = req[r].level_id

\* Two requests carry the same submission.
SameSubmission(a, b) ==
    /\ a.op = b.op
    /\ a.player_id = b.player_id /\ a.player_name = b.player_name
    /\ a.score = b.score /\ a.games = b.games
    /\ a.level_id = b.level_id /\ a.language = b.language
    /\ a.difficulty = b.difficulty

ScoreRowsFor(rq) ==
    IF rq.op = "global_score"
    THEN Cardinality({j \in 1..Len(global_scores) : global_scores[j].id = rq.player_id})
    ELSE Cardinality(LevelRowsOf(rq.player_id))

\* C10 as stated: a submission that failed with a storage error and is then
\* sent again unchanged leaves what one successful submission leaves: one
\* score row, and a total_games counted once.
C10_RetryIdempotent ==
    (/\ req[1].op \in {"global_score", "level_score"}
     /\ req[1].status = 500
     /\ req[2].pc = "done" /\ req[2].status = 200
     /\ SameSubmission(req[1], req[2]))
        => /\ ScoreRowsFor(req[2]) = 1
           /\ req[2].op = "level_score" =>
                 \A j \in PlayerRowsOf(req[2].player_id) : players[j].games = Num(1)


\* The rows recalculateGlobalPositions ranks: every row that is long enough.
RecalcRanked == {j \in StartIndex(players)..Len(players) : RowLen(players[j]) >= 11}

\* The place of row j among the rows S by descending total_score, earlier rows
\* first among equals.
CleanRank(S, j) ==
    1 + Cardinality({k \in S : StoredTotal(k) > StoredTotal(j)})
      + Cardinality({k \in S : StoredTotal(k) = StoredTotal(j) /\ k < j})

\* C11: a run of recalculateGlobalPositions whose read or whose position write
\* fails ends as a storage failure, and a run that completes has issued its
\* read and one write per ranked row and leaves every ranked row at its rank
\* by total_score, whatever cells an earlier failed run had written.
C11_FailedRecalcRecovers ==
    \A r \in Slots :
        (req[r].op = "recalc" /\ Latest(r)) =>
            /\ req[r].status \in {200, 500}
            /\ req[r].status = 200 =>
                  /\ req[r].ncalls = 1 + Cardinality(RecalcRanked)
                  /\ \A j \in RecalcRanked : StoredPosition(j) = CleanRank(RecalcRanked, j)

\* C11 reached: a run failed at its second position write, the next run
\* completed, and the ranking differs from the sheet order.
C11_Witness ==
    \E q, r \in Slots :
        /\ q < r
        /\ req[q].op = "recalc" /\ req[q].status = 500 /\ req[q].ncalls >= 3
        /\ req[r].op = "recalc" /\ Latest(r) /\ req[r].status = 200
        /\ \E a, b \in RecalcRanked :
              a < b /\ StoredPosition(b) = 1 /\ StoredPosition(a) > 1


\* The statistics update of request r looked its player up and found no row.
StatsFoundNoRow(r) ==
    /\ req[r].op = "level_score"
    /\ req[r].pc = "done"
    /\ req[r].ncalls >= 4
    /\ ~req[r].chk.exists

\* C12 as stated: a request one of whose steps could not do its work (the
\* statistics update found no row for the player) never ends with a success
\* response.
C12_NoSwallowedFailure ==
    \A r \in Slots : StatsFoundNoRow(r) => req[r].status # 200


\* Request r, a POST /global-score, is in its position pass.
InPositionPass(r) ==
    req[r].op = "global_score" /\ req[r].pc \in {"pos_read", "pos_write"}

\* The score row of submission r is stored.
ScoreRowStored(r) ==
    IF req[r].op = "global_score"
    THEN \E j \in 1..Len(global_scores) : global_scores[j] = GlobalRow(req[r])
    ELSE \E j \in 1..Len(level_scores) : level_scores[j] = LevelRow(req[r])

\* The aggregate row of the player of submission r carries the submission:
\* its name, and a total_score the submitted one does not exceed.
AggregateUpdated(r) ==
    \E j \in PlayerRowsOf(req[r].player_id) :
        /\ players[j].name = req[r].player_name
        /\ players[j].last >= req[r].ts
        /\ ~JsGreater(req[r].score, StoredTotal(j))

\* C13: within a submission the score row is appended before any later step
\* (the rank read included), the player aggregate is updated before the
\* position pass starts, and a step issues one storage call, after the
\* previous one has returned.
C13_StepsSequential ==
    /\ [](\A r \in Slots :
            /\ (/\ req[r].op \in {"global_score", "level_score"}
                /\ req[r].pc \notin {"idle", "done", "gs_append", "ls_append"})
                   => ScoreRowStored(r)
            /\ InPositionPass(r) => AggregateUpdated(r))
    /\ [][\A r \in Slots :
            /\ req'[r].ncalls \in {req[r].ncalls, req[r].ncalls + 1, 0}
            /\ req'[r].ncalls = req[r].ncalls + 1 =>
                  \A q \in Slots \ {r} : req'[q].ncalls # req[q].ncalls + 1]_vars

\* C13 reached: a submission of a known player with a larger total is at its
\* rank read, its row appended and the aggregate raised.
C13_Witness ==
    \E r \in Slots :
        /\ InPositionPass(r)
        /\ req[r].pc = "pos_read"
        /\ req[r].chk.exists
        /\ req[r].ncalls = 7
        /\ ScoreRowStored(r)
        /\ \E j \in PlayerRowsOf(req[r].player_id) : players[j].total = req[r].score


\* C14 as stated: a global leaderboard read, also one running while a position
\* pass is writing, never returns two entries with the same non-zero position.
C14_ReaderSeesDistinctPositions ==
    \A r \in Slots :
        (req[r].op = "global_board" /\ req[r].pc = "done" /\ req[r].status = 200) =>
            \A a, b \in 1..Len(req[r].result) :
                (a # b /\ req[r].result[a].global_position # 0) =>
                    req[r].result[a].global_position # req[r].result[b].global_position

\* Sheet old is kept row for row at the front of sheet new.
IsPrefix(old, new) ==
    /\ Len(old) <= Len(new)
    /\ \A j \in 1..Len(old) : new[j] = old[j]

\* Request r, a score submission still running, takes this step.
SubmissionStep(r) ==
    /\ req[r].op \in {"global_score", "level_score"}
    /\ req[r].pc # "done"
    /\ req'[r] # req[r]

\* The players sheet changes in global_position cells at most.
PositionCellsOnly ==
    /\ Len(players') = Len(players)
    /\ \A j \in 1..Len(players) : [players'[j] EXCEPT !.pos = players[j].pos] = players[j]

\* C15: no step of a score submission changes or removes a row already in
\* global_scores or level_scores (the sheets only grow at the end), and a
\* step of the position pass changes nothing but global_position cells of
\* the players sheet.
C15_ScoreRowsImmutable ==
    [][\A r \in Slots :
          SubmissionStep(r) =>
              /\ IsPrefix(global_scores, global_scores')
              /\ IsPrefix(level_scores, level_scores')
              /\ req[r].pc = "pos_write" => PositionCellsOnly]_vars

\* C15 witness: a second global submission has been accepted on top of a
\* stored score row, and its position pass has written positions 1 and 2.
C15_Witness ==
    /\ Len(global_scores) >= StartIndex(global_scores) + 1
    /\ \E r \in Slots : req[r].op = "global_score" /\ req[r].pc = "done"
                         /\ req[r].status = 200 /\ req[r].position >= 1
    /\ \E j \in Ranked : StoredPosition(j) = 2

\* The rows of the players sheet that belong to player id.
AggregateRows(id) == {j \in StartIndex(players)..Len(players) : players[j].id = id}

\* Request r is an accepted score submission, global or level.
AcceptedSubmission(r) ==
    /\ req[r].op \in {"global_score", "level_score"}
    /\ req[r].pc = "done"
    /\ req[r].status = 200

\* C16: once a score submission of player p (global or level) has been
\* accepted, with no concurrent request, the players sheet holds a row of p
\* whose last_record is a timestamp taken by that submission (so the first
\* submission creates the row and every later one updates it); and no step of
\* a submission removes a players row or changes the player a row belongs to.
C16_AggregateRowKept ==
    /\ [](\A r \in Slots :
             (Latest(r) /\ AcceptedSubmission(r)) =>
                 \E j \in AggregateRows(req[r].player_id) : players[j].last >= req[r].ts)
    /\ [][\A r \in Slots :
             SubmissionStep(r) =>
                 /\ Len(players') >= Len(players)
                 /\ \A j \in 1..Len(players) : players'[j].id = players[j].id]_vars

\* C16 witness: a player whose first submission created the row submits
\* again; the second submission is accepted and has refreshed last_record of
\* that same row, which was created before the second request began.
C16_Witness ==
    \E r \in Slots :
        /\ r > 1 /\ Latest(r) /\ AcceptedSubmission(r)
        /\ AcceptedSubmission(r - 1) /\ req[r - 1].player_id = req[r].player_id
        /\ \E j \in AggregateRows(req[r].player_id) :
               players[j].created < req[r].ts /\ players[j].last >= req[r].ts

BoardAnswered(r, op) ==
    req[r].op = op /\ req[r].pc = "done" /\ req[r].status = 200

\* The level_scores rows that the query of request r selects.
LevelMatched(r) ==
    {j \in StartIndex(level_scores)..Len(level_scores) :
        LevelMatches(level_scores[j], req[r])}

QueryOps == {"global_board", "level_board", "legacy_board", "player_info"}

\* Request r, a query, takes this step: it arrives, reads, or is answered.
QueryStepOf(r) ==
    /\ req'[r].op \in QueryOps
    /\ req[r].pc # "done"
    /\ req'[r] # req[r]

\* C19: no step of a query changes a sheet, whether the query is answered
\* 200, refused, or fails on its storage read.
C19_QueriesReadOnly ==
    [][\A r \in Slots : QueryStepOf(r) => sheets' = sheets]_vars

\* C19 witness: GET /player-info has answered 200 with the row an accepted
\* submission left in the players sheet.
C19_Witness ==
    \E r \in Slots :
        /\ r > 1 /\ Latest(r) /\ BoardAnswered(r, "player_info")
        /\ AcceptedSubmission(r - 1)
        /\ Len(req[r].result) = 1
        /\ req[r].result[1].player_id = req[r - 1].player_id

\* The stored level scores of the scope the query of request r names: the
\* level, narrowed to the language and the difficulty when the query has them.
ScopeRows(r) ==
    {j \in StartIndex(level_scores)..Len(level_scores) :
        /\ level_scores[j].level_id = req[r].level_id
        /\ req[r].language \in {"", level_scores[j].language}
        /\ req[r].difficulty \in {"", level_scores[j].difficulty}}

\* GET /level-leaderboard of request r named a level and its storage read
\* did not fail; no later request has arrived.
LevelQueryServed(r) ==
    /\ Latest(r)
    /\ req[r].op = "level_board"
    /\ req[r].level_id # ""
    /\ req[r].status # 500

\* C20 as stated: a level leaderboard query for a scope with no stored score
\* is answered not-found.
C20_UnknownScopeNotFound ==
    \A r \in Slots :
        (LevelQueryServed(r) /\ ScopeRows(r) = {}) => req[r].status = 404

\* C20 amended: a level leaderboard query that names a level is answered 200
\* with one entry per stored score of the scope, so with the empty list for
\* a scope nobody has played; only a query without level_id is refused (400).
C20_UnknownScopeEmptyList ==
    \A r \in Slots :
        /\ LevelQueryServed(r) =>
               /\ req[r].status = 200
               /\ Len(req[r].result) = Cardinality(ScopeRows(r))
               /\ \A a \in 1..Len(req[r].result) :
                      req[r].result[a].level_id = req[r].level_id
        /\ (req[r].op = "level_board" /\ req[r].pc = "done" /\ req[r].level_id = "") =>
               req[r].status = 400

\* C20 witness: with a score stored for level l1, a query for level l2 is
\* answered 200 with the empty list.
C20_Witness ==
    \E r \in Slots :
        /\ LevelQueryServed(r) /\ req[r].level_id = "l2"
        /\ \E j \in StartIndex(level_scores)..Len(level_scores) :
               level_scores[j].level_id = "l1"
        /\ req[r].status = 200 /\ req[r].result = <<>>

\* GET /player-info of request r named a player and its storage read did not
\* fail; no later request has arrived.
PlayerQueryServed(r) ==
    /\ Latest(r)
    /\ req[r].op = "player_info"
    /\ req[r].player_id # ""
    /\ req[r].status # 500

\* The number in a cell, 0 for an empty or non-numeric cell.
CellNumber(v) == IF v[1] = "num" THEN v[2] ELSE 0

\* C21: GET /player-info for a player_id with no players row is answered 404
\* without a body; for a player_id with a row it is answered 200 with the
\* cells of that row: id, name, the two timestamps, the high-score record as
\* stored, and the four counters as numbers.
C21_PlayerInfoFoundOrNot ==
    \A r \in Slots :
        PlayerQueryServed(r) =>
            IF AggregateRows(req[r].player_id) = {}
            THEN req[r].status = 404 /\ req[r].result = <<>>
            ELSE /\ req[r].status = 200
                 /\ Len(req[r].result) = 1
                 /\ \E j \in AggregateRows(req[r].player_id) :
                        LET row == players[j]
                            out == req[r].result[1]
                        IN /\ out.player_id = req[r].player_id
                           /\ out.player_name = row.name
                           /\ out.created = row.created
                           /\ out.last_record = row.last
                           /\ out.total_games = CellNumber(row.games)
                           /\ out.highest_score = CellNumber(row.high)
                           /\ out.hs_level = row.hs_level
                           /\ out.hs_difficulty = row.hs_difficulty
                           /\ out.hs_language = row.hs_language
                           /\ out.hs_time = CellNumber(row.hs_time)
                           /\ out.total_score = CellNumber(row.total)
                           /\ out.global_position = CellNumber(row.pos)

\* C21 witness: a player ranked by an accepted POST /global-score is queried
\* and the answer carries the stored total and position.
C21_Witness ==
    \E r \in Slots :
        /\ PlayerQueryServed(r) /\ req[r].status = 200
        /\ Len(req[r].result) = 1
        /\ req[r].result[1].total_score >= 1
        /\ req[r].result[1].global_position = 1

\* The leaderboard entry GET /level-leaderboard makes of a level_scores row.
LevelEntry(row) ==
    [player_name |-> row.name, level_id |-> row.level_id, language |-> row.language,
     difficulty |-> row.difficulty, score |-> CellNumber(row.score),
     timestamp |-> row.ts]

C23_GlobalBoardDescending ==
    \A r \in Slots :
        BoardAnswered(r, "global_board") =>
            \A a \in 1..Len(req[r].result) - 1 :
                req[r].result[a].total_score >= req[r].result[a + 1].total_score

\* C23 witness: the player stored second has the larger total and is listed
\* first.
C23_Witness ==
    \E r \in Slots :
        /\ BoardAnswered(r, "global_board")
        /\ Len(req[r].result) = 2
        /\ req[r].result[1].player_id = "p2"
        /\ req[r].result[1].total_score > req[r].result[2].total_score

\* C24: the answer of an endpoint does not depend on the access token: any
\* two answered GET /test-auth requests, which differ in nothing but the
\* token the auth client handed out, carry the same body.
C24_ResponseIndependentOfToken ==
    \A q, r \in Slots :
        (BoardAnswered(q, "test_auth") /\ BoardAnswered(r, "test_auth")) =>
            req[q].result = req[r].result

\* Request r is a GET /leaderboard answered 200 right after request r - 1, an
\* accepted POST /global-score with a numeric score.
ReadAfterWrite(r) ==
    /\ r > 1
    /\ Latest(r) /\ BoardAnswered(r, "legacy_board")
    /\ req[r - 1].op = "global_score" /\ req[r - 1].status = 200
    /\ req[r - 1].score[1] = "num"

\* C25: a GET /leaderboard that follows an accepted score submission lists an
\* entry with the submitted player_id, player_name and score.
C25_ReadYourWrites ==
    \A r \in Slots :
        ReadAfterWrite(r) =>
            \E a \in 1..Len(req[r].result) :
                /\ req[r].result[a].player_id = req[r - 1].player_id
                /\ req[r].result[a].player_name = req[r - 1].player_name
                /\ req[r].result[a].score = req[r - 1].score[2]

\* C26: whatever the interleaving of requests, no two rows of the players
\* sheet carry the same player_id.
C26_OneRowPerPlayer ==
    \A id \in PlayerIds : Cardinality(AggregateRows(id)) <= 1

\* No request so far is a POST /reset-player.
NoReset == \A r \in Slots : req[r].op # "reset_player"

\* The POST /global-score requests of player id so far.
GlobalSubmissionsOf(id) ==
    {r \in Slots : req[r].op = "global_score" /\ req[r].player_id = id}

\* The players row of player id that checkPlayerExists finds.
FirstRowOf(id) == CHOOSE j \in AggregateRows(id) : \A k \in AggregateRows(id) : j <= k

\* C27: without resets, no step lowers the total_score stored in a players
\* row, and once every POST /global-score of a player (each with a positive
\* score) has answered 200, in any interleaving, the player's stored
\* total_score is the largest total submitted.
C27_TotalIsMaxSubmitted ==
    /\ [][(\A r \in Slots : req'[r].op # "reset_player") =>
              \A j \in 1..Len(players) :
                  (j <= Len(players') /\ players'[j].id = players[j].id) =>
                      CellNumber(players'[j].total) >= CellNumber(players[j].total)]_vars
    /\ [](\A id \in PlayerIds :
             (/\ NoReset
              /\ GlobalSubmissionsOf(id) # {}
              /\ \A r \in GlobalSubmissionsOf(id) :
                     /\ req[r].pc = "done" /\ req[r].status = 200
                     /\ req[r].score[1] = "num" /\ req[r].score[2] > 0) =>
                 /\ AggregateRows(id) # {}
                 /\ \A r \in GlobalSubmissionsOf(id) :
                        CellNumber(players[FirstRowOf(id)].total) >= req[r].score[2]
                 /\ \E r \in GlobalSubmissionsOf(id) :
                        CellNumber(players[FirstRowOf(id)].total) = req[r].score[2])

\* The POST /level-score requests of player id so far.
LevelSubmissionsOf(id) ==
    {r \in Slots : req[r].op = "level_score" /\ req[r].player_id = id}

\* C28: for a player with no global submission and no reset, once all the
\* player's POST /level-score requests have answered 200, in any
\* interleaving, the stored total_games is their number.
C28_GamesCountLevelSubmissions ==
    \A id \in PlayerIds :
        (/\ NoReset
         /\ GlobalSubmissionsOf(id) = {}
         /\ LevelSubmissionsOf(id) # {}
         /\ \A r \in LevelSubmissionsOf(id) : req[r].pc = "done" /\ req[r].status = 200) =>
            /\ AggregateRows(id) # {}
            /\ CellNumber(players[FirstRowOf(id)].games) = Cardinality(LevelSubmissionsOf(id))

\* The players rows of the modelled players (not the header, not a reset row).
PlayerRows == {j \in 1..Len(players) : players[j].id \in PlayerIds}

\* level_scores row k is a submission of the player of players row j with
\* the score, level, difficulty and language of that row's high-score record.
IsHighScoreSubmission(k, j) ==
    /\ level_scores[k].id = players[j].id
    /\ level_scores[k].score = players[j].high
    /\ level_scores[k].level_id = players[j].hs_level
    /\ level_scores[k].difficulty = players[j].hs_difficulty
    /\ level_scores[k].language = players[j].hs_language

\* C29: in every reachable state a non-zero highest_score of a players row
\* is the score of a stored level submission of that player, with the
\* level, difficulty and language recorded beside it; and, without resets,
\* highest_score is at least every level score the player has had accepted.
C29_HighScoreRecordConsistent ==
    /\ \A j \in PlayerRows :
           CellNumber(players[j].high) # 0 =>
               \E k \in 1..Len(level_scores) : IsHighScoreSubmission(k, j)
    /\ NoReset =>
           \A r \in Slots :
               (req[r].op = "level_score" /\ req[r].pc = "done" /\ req[r].status = 200
                    /\ req[r].score[1] = "num" /\ AggregateRows(req[r].player_id) # {}) =>
                   CellNumber(players[FirstRowOf(req[r].player_id)].high) >= req[r].score[2]

\* ------------------------------------------------- POST /register-player
\* Request r, a POST /register-player with both fields present, takes a step.
RegisterStep(r) ==
    /\ req[r].op = "register_player"
    /\ req[r].pc # "done"
    /\ req'[r] # req[r]

\* The row a registration of request rq creates: every statistic zero, the
\* high-score cells empty, created_at and last_played the same timestamp.
ZeroedRow(rq) ==
    PlayerRow(rq.player_id, rq.player_name, rq.ts2, rq.ts2, Num(0), Num(0),
              "", "", "", Num(0), Num(0), Num(0))

\* C30: with requests served one at a time, a POST /register-player whose
\* player_id already has a row in the players sheet is answered 409 (500 when
\* the storage call fails) and none of its steps changes the players sheet;
\* one whose player_id has no row is not answered 409, and the only step of
\* it that changes the players sheet is the one that answers 200, which
\* appends one row with that id and name and zeroed statistics; once
\* answered 200 the sheet holds exactly one row of that id.
C30_RegisterConflictOrCreate ==
    /\ [][\A r \in Slots : RegisterStep(r) =>
            LET id == req[r].player_id
                known == AggregateRows(id) # {}
            IN /\ (req[r].pc = "rp_check" /\ known) =>
                      /\ req'[r].pc = "done"
                      /\ req'[r].status \in {409, 500}
               /\ known => players' = players
               /\ req'[r].status = 409 => (req[r].pc = "rp_check" /\ known)
               /\ IF req'[r].status = 200
                  THEN /\ ~known
                       /\ players' = Append(players, ZeroedRow(req[r]))
                  ELSE players' = players
               /\ UNCHANGED <<global_scores, level_scores>>]_vars
    /\ [](\A r \in Slots :
            (Latest(r) /\ req[r].op = "register_player" /\ req[r].status = 200)
                => Cardinality(AggregateRows(req[r].player_id)) = 1)

\* A registration of an id that already has a row has been answered 409 after
\* an earlier registration of the same id was answered 200, and the sheet
\* still holds the one row the first registration created.
C30_Witness ==
    \E r \in Slots : r > 1 /\
        /\ Latest(r)
        /\ req[r].op = "register_player"
        /\ req[r].status = 409
        /\ req[r - 1].op = "register_player"
        /\ req[r - 1].status = 200
        /\ req[r - 1].player_id = req[r].player_id
        /\ \E j \in AggregateRows(req[r].player_id) :
              /\ AggregateRows(req[r].player_id) = {j}
              /\ players[j] = ZeroedRow([req[r - 1] EXCEPT !.ts2 = players[j].created])

\* --------------------------------------------------- POST /update-player
\* Request r, a POST /update-player, takes a step.
UpdateStep(r) ==
    /\ req[r].op = "update_player"
    /\ req[r].pc # "done"
    /\ req'[r] # req[r]

\* C31: no step of a POST /update-player changes the number of rows of the
\* players sheet, whatever other requests are in flight, and a request whose
\* player_id has no row at its existence check is answered 404 (500 when the
\* storage call fails) with the sheet unchanged.
C31_UpdateAddsNoRow ==
    [][\A r \in Slots : UpdateStep(r) =>
          /\ Len(players') = Len(players)
          /\ (req[r].pc = "up_check" /\ AggregateRows(req[r].player_id) = {}) =>
                /\ req'[r].status \in {404, 500}
                /\ players' = players]_vars

\* ------------------------------------------------------- the deleted row
\* The rows of the players sheet that a full reset has marked.
DeletedRows == {j \in 1..Len(players) : players[j].id = "DELETED"}

\* C32: a row that a full reset has marked DELETED stays as the reset left
\* it (no later request writes a name, a timestamp, a statistic or a position
\* into it), no GET /global-leaderboard response lists it, and no
\* GET /player-info response returns it.
C32_DeletedRowUntouched ==
    /\ [][\A j \in DeletedRows : j <= Len(players') /\ players'[j] = players[j]]_vars
    /\ [](\A r \in Slots :
            /\ BoardAnswered(r, "global_board") =>
                  \A a \in 1..Len(req[r].result) :
                      req[r].result[a].player_id # "DELETED"
            /\ BoardAnswered(r, "player_info") =>
                  \A a \in 1..Len(req[r].result) :
                      req[r].result[a].player_id # "DELETED")

\* ------------------------------------------- positions after resets
\* Every request so far was a POST /global-score or a POST /reset-player, all
\* have answered 200, one after the other, and a reset was among them.
ResetSequenceCompleted ==
    /\ \A r \in Slots :
          \/ req[r].op = "idle"
          \/ /\ req[r].op \in {"global_score", "reset_player"}
             /\ req[r].pc = "done"
             /\ req[r].status = 200
    /\ \E r \in Slots : req[r].op = "reset_player"

\* C33: after a completed sequence of global submissions and resets, run one
\* at a time, the stored positions of the N players that remain (rows not
\* marked DELETED) are exactly 1..N, each held by one row.
C33_PositionsGapFreeAfterResets ==
    ResetSequenceCompleted =>
        /\ {StoredPosition(j) : j \in Ranked} = 1..Cardinality(Ranked)
        /\ \A a, b \in Ranked : StoredPosition(a) = StoredPosition(b) => a = b

\* ------------------------------------------------- one response per request
\* Request r is a score submission that has arrived.
IsSubmission(r) == req[r].op \in {"global_score", "level_score"}

\* C34: every score submission that has arrived is eventually answered,
\* provided each pending storage call eventually returns or fails; once it is
\* answered its status never changes (one response), and no step of the
\* request after its answer writes to a sheet: the answer, 200 included, comes
\* with the end of the pipeline.
C34_OneResponseAfterLastWrite ==
    /\ [][\A r \in Slots : (IsSubmission(r) /\ req[r].status # 0) =>
            /\ req[r].pc = "done"
            /\ req'[r].pc = "done"
            /\ req'[r].status = req[r].status
            /\ req'[r] # req[r] => sheets' = sheets]_vars
    /\ \A r \in Slots :
          (IsSubmission(r) /\ req[r].status = 0) ~> (req[r].status \in {200, 500})

\* A global submission has been answered 200 with its score row stored and
\* its player ranked, and a level submission before it was answered 500 on a
\* storage failure after its score row was stored.
C34_Witness ==
    \E r \in Slots : r > 1 /\
        /\ Latest(r)
        /\ req[r].op = "global_score"
        /\ req[r].status = 200
        /\ \E j \in Ranked : players[j].id = req[r].player_id /\ StoredPosition(j) >= 1
        /\ \E j \in 1..Len(global_scores) : global_scores[j].id = req[r].player_id
        /\ req[r - 1].op = "level_score"
        /\ req[r - 1].status = 500
        /\ req[r - 1].ncalls >= 2
====
